---------------------------- MODULE Spec2Model ----------------------------
(***************************************************************************)
(* Model of the gamepad input pipeline of dmx-control-app:                 *)
(*   GamepadWorker  (src/core/gamepad_manager.py) - the poller thread      *)
(*   GamepadManager (src/core/gamepad_manager.py) - the action mapper      *)
(*   ConfigManager  (src/core/config_manager.py)  - the profile store      *)
(*                                                                         *)
(* Floats are fixed point: deadzone, sensitivity and axis values are in    *)
(* hundredths (0.2 is 20, 1.0 is 100).  A dict is a function whose DOMAIN  *)
(* is its key set.  A dict key is a pair <<kind, n>>: the int n and the    *)
(* str "n" are different keys in Python, and JSON object keys are str.     *)
(***************************************************************************)
EXTENDS Integers, Sequences, FiniteSets, TLC

(***************************************************************************)
(* Bounds of the model                                                     *)
(***************************************************************************)
\* workers that start() may create in one run
MaxWorkers == 2
\* signals in flight from the poller threads to the main thread
MaxQueue == 3
\* warnings counted before start() without pygame is no longer followed
MaxWarnings == 2
\* physical buttons a device reports (get_numbuttons)
MaxButtons == 2
\* analog axes a device reports (get_numaxes)
MaxAxes == 1
\* physical buttons of a device that has more buttons than the first virtual
\* hat index
WideButtons == 13
\* hats a device reports (get_numhats)
MaxHats == 2
\* axes of the device whose movements are mapped to named axes
MapAxes == 5
\* buttons of the device whose presses go through the action mapper
MapButtons == 11

\* Python's None, for GamepadManager.worker and for gamepad_name
None == 0
NoName == "<None>"
WorkerIds == 1..MaxWorkers
DeviceName == "pad"

\* inputs drawn for the device and for the setters (hundredths)
AxisValues == {-30, 0, 18, 30}
DeadzoneInputs == {-100, 10, 90}
HatValues == {<<0, 0>>, <<0, 1>>, <<1, 1>>, <<-1, 0>>}
MapActions == {"none", "back"}
SensitivityInputs == {10, 150, 300}
UserNames == {"racing"}
\* the buttons pressed on that device: 0 is mapped in every built-in table,
\* 10 is 'none' in DEFAULT_MAPPINGS and absent from the built-in profiles
MapPressed == {0, 10}

(***************************************************************************)
(* Python helpers                                                          *)
(***************************************************************************)
IntKey(n) == <<"int", n>>
StrKey(n) == <<"str", n>>
EmptyDict == [k \in {} |-> k]

\* dict.get(key, default)
DictGet(d, k, default) == IF k \in DOMAIN d THEN d[k] ELSE default

\* d[k] = v
DictSet(d, k, v) == [x \in (DOMAIN d) \cup {k} |-> IF x = k THEN v ELSE d[x]]

Abs(x) == IF x < 0 THEN -x ELSE x
Max2(a, b) == IF a > b THEN a ELSE b
Min2(a, b) == IF a < b THEN a ELSE b

\* a signal of the worker: its type and arguments (name: the str of connected)
Ev(t, i, v) == [type |-> t, idx |-> i, val |-> v, name |-> ""]
EvConnected(n) == [type |-> "connected", idx |-> 0, val |-> 0, name |-> n]
NoEvent == Ev("none", 0, 0)

\* a signal of the manager
Sig(s, i, a, v) == [sig |-> s, idx |-> i, arg |-> a, val |-> v]

(***************************************************************************)
(* GamepadManager: the built-in tables                                     *)
(***************************************************************************)
DEFAULT_MAPPINGS ==
    [k \in {IntKey(n) : n \in 0..15} |->
        CASE k[2] = 0 -> "select"
          [] k[2] = 1 -> "back"
          [] k[2] = 2 -> "refresh"
          [] k[2] = 3 -> "context"
          [] k[2] = 4 -> "prev_tab"
          [] k[2] = 5 -> "next_tab"
          [] k[2] = 6 -> "modifier"
          [] k[2] = 7 -> "none"
          [] k[2] = 8 -> "reset"
          [] k[2] = 9 -> "save"
          [] k[2] = 10 -> "none"
          [] k[2] = 11 -> "none"
          [] k[2] = 12 -> "nav_up"
          [] k[2] = 13 -> "nav_down"
          [] k[2] = 14 -> "nav_left"
          [] k[2] = 15 -> "nav_right"]

DefaultAnalog == [deadzone |-> 20, sensitivity |-> 100, invert_y |-> FALSE]

(***************************************************************************)
(* ConfigManager: the built-in profiles, as json.load returns them         *)
(***************************************************************************)
BuiltinButtons ==
    [k \in {StrKey(n) : n \in (0..9) \cup (12..15)} |->
        DEFAULT_MAPPINGS[IntKey(k[2])]]

BuiltinNames == {"default", "xbox", "playstation"}

DefaultProfiles ==
    [n \in BuiltinNames |->
        [name |-> CASE n = "default" -> "Default (Steam Deck)"
                    [] n = "xbox" -> "Xbox Controller"
                    [] n = "playstation" -> "PlayStation Controller",
         buttons |-> BuiltinButtons,
         analog |-> [deadzone |-> IF n = "xbox" THEN 15 ELSE 20,
                     sensitivity |-> 100,
                     invert_y |-> FALSE]]]

DEFAULT_CONFIG == [active_profile |-> "default"]

\* A profile file holds a JSON object (a record of its keys) or something
\* else: text that json.load rejects, or a JSON value that is not an object.
Unparseable == [json |-> "invalid"]
JsonArray == [json |-> "array"]
NoFile == [json |-> "missing"]
IsObject(c) == "json" \notin DOMAIN c

\* json.dump then json.load of a dict of mappings: every key becomes a string;
\* of two keys with the same text the later one wins, and an int key is always
\* set (set_mapping) after the str keys were loaded
JsonKeys(m) ==
    [k \in {StrKey(x[2]) : x \in DOMAIN m} |->
        IF IntKey(k[2]) \in DOMAIN m THEN m[IntKey(k[2])] ELSE m[k]]

(***************************************************************************)
(* State                                                                   *)
(***************************************************************************)
VARIABLES
    pygame,      \* PYGAME_AVAILABLE
    dev,         \* the device backend: count, and the device's shape (nb, na, nh)
                 \* and controls (btn, axis, hat)
    wk,          \* every GamepadWorker created: pc, running, joystick,
                 \* last_button_states, last_hat_state, deadzone
    created,     \* number of GamepadWorker objects constructed so far
    worker,      \* GamepadManager.worker (None or a worker id)
    mainpc,      \* the main thread: "idle" in the event loop, "wait" in QThread.wait
    queue,       \* worker signals posted to the main thread, not yet delivered
    held,        \* per worker, the button indices its signals so far leave pressed
    hasConfig,   \* GamepadManager.config is not None
    mappings,    \* GamepadManager.mappings
    analog,      \* GamepadManager.analog_settings
    connected,   \* GamepadManager.connected
    gamepad_name,\* GamepadManager.gamepad_name (None or a name)
    sig,         \* the last slot the manager ran: the worker signal it handled (ev)
                 \* and the signals the manager emitted from it (out)
    profiles,    \* ConfigManager: the profile files, name -> parsed content
    config,      \* ConfigManager._config
    result,      \* what the last profile call returned, or the exception it raised
    widgets,     \* MainWindow: its child widgets, in findChildren order
    focus,       \* MainWindow.focusWidget(): None or an index of widgets
    warnings     \* number of "pygame not available" warnings start() has printed

envVars == <<pygame, hasConfig>>
threadVars == <<wk, held, created, worker, mainpc, queue>>
mgrVars == <<mappings, analog, connected, gamepad_name, sig>>
storeVars == <<profiles, config, result>>
navVars == <<widgets, focus>>
outVars == <<warnings>>

\* the specifications of the gamepad and of the store have no window
NoWindow == widgets = <<>> /\ focus = None
vars == <<pygame, hasConfig, dev, wk, held, created, worker, mainpc, queue,
          mappings, analog, connected, gamepad_name, sig, profiles, config,
          result, widgets, focus, warnings>>


(***************************************************************************)
(* GamepadWorker                                                           *)
(***************************************************************************)
\* GamepadWorker.__init__
NewWorker ==
    [pc |-> "start", running |-> FALSE, joystick |-> FALSE,
     last_button_states |-> EmptyDict, last_hat_state |-> <<0, 0>>,
     deadzone |-> 20]

\* a worker id that start() has not constructed yet
NoWorker ==
    [pc |-> "none", running |-> FALSE, joystick |-> FALSE,
     last_button_states |-> EmptyDict, last_hat_state |-> <<0, 0>>,
     deadzone |-> 20]

\* the hat_buttons dict with left and right exchanged
hat_buttons_swapped ==
    (<<0, 1>> :> 12) @@ (<<0, -1>> :> 13) @@ (<<-1, 0>> :> 15) @@
    (<<1, 0>> :> 14) @@ (<<1, 1>> :> 12) @@ (<<-1, 1>> :> 12) @@
    (<<1, -1>> :> 13) @@ (<<-1, -1>> :> 13)

\* the hat_buttons dict of run()
hat_buttons ==
    (<<0, 1>> :> 12) @@ (<<0, -1>> :> 13) @@ (<<-1, 0>> :> 14) @@
    (<<1, 0>> :> 15) @@ (<<1, 1>> :> 12) @@ (<<-1, 1>> :> 12) @@
    (<<1, -1>> :> 13) @@ (<<-1, -1>> :> 13)

\* the connection check without the test that no joystick is open yet
PollConnectionNoLatch(p, d) ==
    IF d.count > 0
    THEN [w |-> [p.w EXCEPT !.joystick = TRUE],
          evs |-> Append(p.evs, EvConnected(DeviceName))]
    ELSE IF d.count = 0 /\ p.w.joystick
    THEN [w |-> [p.w EXCEPT !.joystick = FALSE],
          evs |-> Append(p.evs, Ev("disconnected", 0, 0))]
    ELSE p

\* run(): the connection check of one tick.  p is [w, evs].
PollConnection(p, d) ==
    IF d.count > 0 /\ ~p.w.joystick
    THEN [w |-> [p.w EXCEPT !.joystick = TRUE],
          evs |-> Append(p.evs, EvConnected(DeviceName))]
    ELSE IF d.count = 0 /\ p.w.joystick
    THEN [w |-> [p.w EXCEPT !.joystick = FALSE],
          evs |-> Append(p.evs, Ev("disconnected", 0, 0))]
    ELSE p

\* the button loop body without the edge test: a press while the button is down
PollButtonLevel(p, d, i) ==
    LET pressed == d.btn[i]
        was_pressed == DictGet(p.w.last_button_states, i, FALSE)
        evs == IF pressed
               THEN Append(p.evs, Ev("pressed", i, 0))
               ELSE IF ~pressed /\ was_pressed
               THEN Append(p.evs, Ev("released", i, 0))
               ELSE p.evs
    IN  [w |-> [p.w EXCEPT !.last_button_states = DictSet(@, i, pressed)],
         evs |-> evs]

\* run(): the body of the button loop for index i
PollButton(p, d, i) ==
    LET pressed == d.btn[i]
        was_pressed == DictGet(p.w.last_button_states, i, FALSE)
        evs == IF pressed /\ ~was_pressed
               THEN Append(p.evs, Ev("pressed", i, 0))
               ELSE IF ~pressed /\ was_pressed
               THEN Append(p.evs, Ev("released", i, 0))
               ELSE p.evs
    IN  [w |-> [p.w EXCEPT !.last_button_states = DictSet(@, i, pressed)],
         evs |-> evs]

\* run(): for i in range(get_numbuttons())
PollButtons(p, d) ==
    LET F[n \in 0..d.nb] ==
            IF n = 0 THEN p ELSE PollButton(F[n - 1], d, n - 1)
    IN  F[d.nb]

\* run(): the body of the axis loop for index i
PollAxis(p, d, i) ==
    LET value == d.axis[i]
    IN  IF Abs(value) > p.w.deadzone
        THEN [p EXCEPT !.evs = Append(@, Ev("axis", i, value))]
        ELSE p

\* run(): for i in range(get_numaxes())
PollAxes(p, d) ==
    LET F[n \in 0..d.na] ==
            IF n = 0 THEN p ELSE PollAxis(F[n - 1], d, n - 1)
    IN  F[d.na]

\* the hat loop body with the press emitted before the release
PollHatPressFirst(p, d, i) ==
    LET hat == d.hat[i]
        last == p.w.last_hat_state
        rel == IF last \in DOMAIN hat_buttons
               THEN <<Ev("released", hat_buttons[last], 0)>> ELSE <<>>
        prs == IF hat \in DOMAIN hat_buttons
               THEN <<Ev("pressed", hat_buttons[hat], 0)>> ELSE <<>>
    IN  IF hat # last
        THEN [w |-> [p.w EXCEPT !.last_hat_state = hat],
              evs |-> p.evs \o prs \o rel]
        ELSE p

\* run(): the body of the hat loop for hat i
PollHat(p, d, i) ==
    LET hat == d.hat[i]
        last == p.w.last_hat_state
        rel == IF last \in DOMAIN hat_buttons
               THEN <<Ev("released", hat_buttons[last], 0)>> ELSE <<>>
        prs == IF hat \in DOMAIN hat_buttons
               THEN <<Ev("pressed", hat_buttons[hat], 0)>> ELSE <<>>
    IN  IF hat # last
        THEN [w |-> [p.w EXCEPT !.last_hat_state = hat],
              evs |-> p.evs \o rel \o prs]
        ELSE p

\* run(): for i in range(get_numhats())
PollHats(p, d) ==
    LET F[n \in 0..d.nh] ==
            IF n = 0 THEN p ELSE PollHat(F[n - 1], d, n - 1)
    IN  F[d.nh]

\* run(): one pass of the while loop body, for worker record w and device d
Poll(w, d) ==
    LET c == PollConnection([w |-> w, evs |-> <<>>], d)
    IN  IF c.w.joystick
        THEN PollHats(PollAxes(PollButtons(c, d), d), d)
        ELSE c

\* run(): up to self.running = True.  Without pygame the thread returns.
WorkerBegin(w) ==
    /\ wk[w].pc = "start"
    /\ wk' = [wk EXCEPT ![w] = IF pygame
                               THEN [@ EXCEPT !.pc = "loop", !.running = TRUE]
                               ELSE [@ EXCEPT !.pc = "done"]]
    /\ UNCHANGED <<envVars, navVars, outVars, dev, held, created, worker, mainpc, queue,
                   mgrVars, storeVars>>

\* the button indices that a stream of signals leaves pressed, from h
RECURSIVE Held(_, _)
Held(h, evs) ==
    IF evs = <<>> THEN h
    ELSE Held(CASE Head(evs).type = "pressed" -> h \cup {Head(evs).idx}
                [] Head(evs).type = "released" -> h \ {Head(evs).idx}
                [] OTHER -> h,
              Tail(evs))

\* run(): while self.running: one tick; its signals are posted to the main thread
Tick(w) ==
    /\ wk[w].pc = "loop"
    /\ wk[w].running
    /\ LET r == Poll(wk[w], dev)
       IN  /\ wk' = [wk EXCEPT ![w] = r.w]
           /\ queue' = queue \o r.evs
           /\ held' = [held EXCEPT ![w] = Held(@, r.evs)]
    /\ UNCHANGED <<envVars, navVars, outVars, dev, created, worker, mainpc, mgrVars, storeVars>>

\* a tick while the posted signals fit the bound on the queue
WorkerTick(w) ==
    /\ wk[w].pc = "loop"
    /\ Len(queue) + Len(Poll(wk[w], dev).evs) <= MaxQueue
    /\ Tick(w)

\* a tick once the main thread has run the slots of the tick before
PollTick(w) ==
    /\ queue = <<>>
    /\ Tick(w)

\* run(): the while condition is false; pygame.quit() and the thread exits
WorkerExit(w) ==
    /\ wk[w].pc = "loop"
    /\ ~wk[w].running
    /\ wk' = [wk EXCEPT ![w].pc = "done"]
    /\ UNCHANGED <<envVars, navVars, outVars, dev, held, created, worker, mainpc, queue,
                   mgrVars, storeVars>>

(***************************************************************************)
(* The device backend (pygame.joystick), driven by the user                *)
(***************************************************************************)
DevPlug ==
    /\ dev.count = 0
    /\ dev' = [dev EXCEPT !.count = 1]
    /\ UNCHANGED <<envVars, navVars, outVars, threadVars, mgrVars, storeVars>>

DevUnplug ==
    /\ dev.count = 1
    /\ dev' = [dev EXCEPT !.count = 0]
    /\ UNCHANGED <<envVars, navVars, outVars, threadVars, mgrVars, storeVars>>

DevButton(i) ==
    /\ dev' = [dev EXCEPT !.btn[i] = ~@]
    /\ UNCHANGED <<envVars, navVars, outVars, threadVars, mgrVars, storeVars>>

DevAxis(i, v) ==
    /\ dev.axis[i] # v
    /\ dev' = [dev EXCEPT !.axis[i] = v]
    /\ UNCHANGED <<envVars, navVars, outVars, threadVars, mgrVars, storeVars>>

\* one stick moved at a time: axis i moves while every other axis is at rest
DevAxisOne(i, v) ==
    /\ \A j \in (0..(dev.na - 1)) \ {i} : dev.axis[j] = 0
    /\ DevAxis(i, v)

DevHat(i, h) ==
    /\ dev.hat[i] # h
    /\ dev' = [dev EXCEPT !.hat[i] = h]
    /\ UNCHANGED <<envVars, navVars, outVars, threadVars, mgrVars, storeVars>>

(***************************************************************************)
(* GamepadManager                                                          *)
(***************************************************************************)
\* start(): a new worker replaces self.worker, whatever it was, and is started
Start ==
    /\ mainpc = "idle"
    /\ IF ~pygame
       THEN /\ warnings < MaxWarnings
            /\ warnings' = warnings + 1
            /\ UNCHANGED <<wk, created, worker>>
       ELSE /\ created < MaxWorkers
            /\ created' = created + 1
            /\ worker' = created + 1
            /\ wk' = [wk EXCEPT ![created + 1] = NewWorker]
            /\ UNCHANGED warnings
    /\ UNCHANGED <<envVars, navVars, dev, held, mainpc, queue, mgrVars, storeVars>>

\* stop() -> GamepadWorker.stop(): self.running = False, then self.wait() blocks
StopBegin ==
    /\ mainpc = "idle"
    /\ worker # None
    /\ wk' = [wk EXCEPT ![worker].running = FALSE]
    /\ mainpc' = "wait"
    /\ UNCHANGED <<envVars, navVars, outVars, dev, held, created, worker, queue,
                   mgrVars, storeVars>>

\* QThread.wait() returns once run() has returned; stop(): self.worker = None
StopReturn ==
    /\ mainpc = "wait"
    /\ wk[worker].pc = "done"
    /\ worker' = None
    /\ mainpc' = "idle"
    /\ UNCHANGED <<envVars, navVars, outVars, dev, wk, held, created, queue,
                   mgrVars, storeVars>>

\* A slot's result: the fields it leaves in the manager and the signals
\* it emits.

\* _on_button_pressed without the test of the 'none' sentinel
OnButtonPressedNoSentinel(button_index) ==
    LET action == DictGet(mappings, IntKey(button_index), "none")
    IN  [connected |-> connected, gamepad_name |-> gamepad_name,
         out |-> <<Sig("button_pressed", button_index, action, 0)>>]

\* _on_button_pressed
OnButtonPressed(button_index) ==
    LET action == DictGet(mappings, IntKey(button_index), "none")
    IN  [connected |-> connected, gamepad_name |-> gamepad_name,
         out |-> IF action # "none"
                 THEN <<Sig("button_pressed", button_index, action, 0)>>
                 ELSE <<>>]

\* _on_button_released
OnButtonReleased(button_index) ==
    [connected |-> connected, gamepad_name |-> gamepad_name, out |-> <<>>]

\* the axis_names dict of _on_axis_moved, and the f-string default
AxisName(axis_index) ==
    CASE axis_index = 0 -> "left_x"
      [] axis_index = 1 -> "left_y"
      [] axis_index = 2 -> "right_x"
      [] axis_index = 3 -> "right_y"
      [] OTHER -> "axis_" \o ToString(axis_index)

\* _on_axis_moved that inverts every axis when invert_y is set
OnAxisMovedInvertAll(axis_index, value) ==
    LET scaled == value * analog.sensitivity
        v == IF analog.invert_y THEN -scaled ELSE scaled
    IN  [connected |-> connected, gamepad_name |-> gamepad_name,
         out |-> <<Sig("axis_moved", axis_index, AxisName(axis_index), v)>>]

\* _on_axis_moved: the value is in ten-thousandths after the multiplication
OnAxisMoved(axis_index, value) ==
    LET scaled == value * analog.sensitivity
        v == IF analog.invert_y /\ axis_index \in {1, 3} THEN -scaled ELSE scaled
    IN  [connected |-> connected, gamepad_name |-> gamepad_name,
         out |-> <<Sig("axis_moved", axis_index, AxisName(axis_index), v)>>]

\* _on_connected
OnConnected(name) ==
    [connected |-> TRUE, gamepad_name |-> name,
     out |-> <<Sig("gamepad_connected", 0, name, 0)>>]

\* _on_disconnected
OnDisconnected ==
    [connected |-> FALSE, gamepad_name |-> NoName,
     out |-> <<Sig("gamepad_disconnected", 0, "", 0)>>]

\* the slot that start() connected to the signal e
Slot(e) ==
    CASE e.type = "pressed" -> OnButtonPressed(e.idx)
      [] e.type = "released" -> OnButtonReleased(e.idx)
      [] e.type = "axis" -> OnAxisMoved(e.idx, e.val)
      [] e.type = "connected" -> OnConnected(e.name)
      [] e.type = "disconnected" -> OnDisconnected

\* The main thread's event loop runs the slot of the oldest posted signal
\* (the connections of start() are queued: the signals come from another thread).
Deliver ==
    /\ mainpc = "idle"
    /\ queue # <<>>
    /\ sig' = [ev |-> Head(queue), out |-> Slot(Head(queue)).out]
    /\ connected' = Slot(Head(queue)).connected
    /\ gamepad_name' = Slot(Head(queue)).gamepad_name
    /\ queue' = Tail(queue)
    /\ UNCHANGED <<envVars, navVars, outVars, dev, wk, held, created, worker, mainpc,
                   mappings, analog, storeVars>>

\* set_mapping
SetMapping(button_index, action) ==
    /\ mainpc = "idle"
    /\ mappings' = DictSet(mappings, IntKey(button_index), action)
    /\ UNCHANGED <<envVars, navVars, outVars, dev, threadVars, analog, connected,
                   gamepad_name, sig, storeVars>>

\* is_connected
is_connected == connected

\* get_gamepad_name
get_gamepad_name == gamepad_name

\* get_mapping
get_mapping(button_index) == DictGet(mappings, IntKey(button_index), "none")

\* the clamp of set_deadzone without its lower bound
ClampDeadzoneUpper(value) == Min2(50, value)

\* the clamp of set_deadzone
ClampDeadzone(value) == Max2(0, Min2(50, value))

\* set_deadzone: the setting is stored, then copied to the worker if there is one
\* (the poller thread can run between the two statements)
SetDeadzone(value) ==
    /\ mainpc = "idle"
    /\ analog' = [analog EXCEPT !.deadzone = ClampDeadzone(value)]
    /\ mainpc' = IF worker # None THEN "dz" ELSE "idle"
    /\ UNCHANGED <<envVars, navVars, outVars, dev, wk, held, created, worker, queue, mappings,
                   connected, gamepad_name, sig, storeVars>>

\* set_deadzone: self.worker.deadzone = self.analog_settings['deadzone']
SetDeadzoneWorker ==
    /\ mainpc = "dz"
    /\ wk' = [wk EXCEPT ![worker].deadzone = analog.deadzone]
    /\ mainpc' = "idle"
    /\ UNCHANGED <<envVars, navVars, outVars, dev, held, created, worker, queue,
                   mgrVars, storeVars>>

\* the clamp of set_sensitivity
ClampSensitivity(value) == Max2(50, Min2(200, value))

\* set_sensitivity
SetSensitivity(value) ==
    /\ mainpc = "idle"
    /\ analog' = [analog EXCEPT !.sensitivity = ClampSensitivity(value)]
    /\ UNCHANGED <<envVars, navVars, outVars, dev, threadVars, mappings, connected,
                   gamepad_name, sig, storeVars>>

\* set_invert_y
SetInvertY(invert) ==
    /\ mainpc = "idle"
    /\ analog.invert_y # invert
    /\ analog' = [analog EXCEPT !.invert_y = invert]
    /\ UNCHANGED <<envVars, navVars, outVars, dev, threadVars, mappings, connected,
                   gamepad_name, sig, storeVars>>

\* reset_to_defaults that restores the mapping only
ResetMappingsOnly ==
    /\ mainpc = "idle"
    /\ mappings' = DEFAULT_MAPPINGS
    /\ UNCHANGED <<envVars, navVars, outVars, dev, threadVars, analog, connected, gamepad_name,
                   sig, storeVars>>

\* reset_to_defaults
ResetToDefaults ==
    /\ mainpc = "idle"
    /\ mappings' = DEFAULT_MAPPINGS
    /\ analog' = DefaultAnalog
    /\ UNCHANGED <<envVars, navVars, outVars, dev, threadVars, connected, gamepad_name,
                   sig, storeVars>>

(***************************************************************************)
(* ConfigManager                                                           *)
(***************************************************************************)
\* get_gamepad_profile: the parsed file, or None (<<>>) when there is no
\* such file or json.load rejects it
get_gamepad_profile(name) ==
    LET n == IF name = NoName
             THEN DictGet(config, "active_profile", "default") ELSE name
    IN  IF n \in DOMAIN profiles /\ profiles[n] # Unparseable
        THEN <<profiles[n]>> ELSE <<>>

\* load_profile: profile.get on a JSON value that is not an object raises
LoadRaises(name) ==
    /\ hasConfig
    /\ get_gamepad_profile(name) # <<>>
    /\ ~IsObject(get_gamepad_profile(name)[1])

\* load_profile: what it leaves in (mappings, analog_settings)
LoadedProfile(name) ==
    LET found == IF hasConfig THEN get_gamepad_profile(name) ELSE <<>>
    IN  IF found # <<>> /\ IsObject(found[1]) /\ DOMAIN found[1] # {}
        THEN [mappings |-> IF "buttons" \in DOMAIN found[1]
                           THEN found[1].buttons ELSE DEFAULT_MAPPINGS,
              analog |-> IF "analog" \in DOMAIN found[1]
                         THEN found[1].analog ELSE analog]
        ELSE [mappings |-> mappings, analog |-> analog]

\* load_profile
LoadProfile(name) ==
    /\ mainpc = "idle"
    /\ mappings' = LoadedProfile(name).mappings
    /\ analog' = LoadedProfile(name).analog
    /\ result' = IF LoadRaises(name) THEN "AttributeError" ELSE "None"
    /\ UNCHANGED <<envVars, navVars, outVars, dev, threadVars, connected, gamepad_name,
                   sig, profiles, config>>

\* get_profile_list
get_profile_list == DOMAIN profiles

\* the profiles directory without the file of name
RemoveFile(name) == [n \in (DOMAIN profiles) \ {name} |-> profiles[n]]

\* delete_gamepad_profile without the test for the built-in names
DeleteProfileAny(name) ==
    /\ mainpc = "idle"
    /\ IF name \in DOMAIN profiles
       THEN result' = "True" /\ profiles' = RemoveFile(name)
       ELSE result' = "False" /\ profiles' = profiles
    /\ UNCHANGED <<envVars, navVars, outVars, dev, threadVars, mgrVars, config>>

\* delete_gamepad_profile
DeleteProfile(name) ==
    /\ mainpc = "idle"
    /\ IF name \in BuiltinNames
       THEN result' = "False" /\ profiles' = profiles
       ELSE IF name \in DOMAIN profiles
       THEN result' = "True" /\ profiles' = RemoveFile(name)
       ELSE result' = "False" /\ profiles' = profiles
    /\ UNCHANGED <<envVars, navVars, outVars, dev, threadVars, mgrVars, config>>

\* import_profile of a file that holds `file`, under the name `name`
ImportProfile(file, name) ==
    /\ mainpc = "idle"
    /\ IF file \in {NoFile, Unparseable}
       THEN result' = "False" /\ profiles' = profiles
       ELSE IF ~IsObject(file)
       THEN result' = "TypeError" /\ profiles' = profiles
       ELSE /\ result' = "True"
            /\ profiles' = DictSet(profiles, name, ("name" :> name) @@ file)
    /\ UNCHANGED <<envVars, navVars, outVars, dev, threadVars, mgrVars, config>>

\* save_profile: the profile it builds, as json.dump then json.load return it
SavedProfile(name) ==
    [name |-> name, buttons |-> JsonKeys(mappings), analog |-> analog]

\* GamepadManager.save_profile, down to save_gamepad_profile
SaveProfile(name) ==
    /\ mainpc = "idle"
    /\ profiles' = IF hasConfig
                   THEN DictSet(profiles, name, SavedProfile(name))
                   ELSE profiles
    /\ result' = "None"
    /\ UNCHANGED <<envVars, navVars, outVars, dev, threadVars, mgrVars, config>>

\* get_active_profile
get_active_profile == DictGet(config, "active_profile", "default")

\* set_active_profile
SetActiveProfile(name) ==
    /\ mainpc = "idle"
    /\ get_active_profile # name
    /\ config' = DictSet(config, "active_profile", name)
    /\ UNCHANGED <<envVars, navVars, outVars, dev, threadVars, mgrVars, profiles, result>>

\* DEFAULT_APP_SETTINGS: of the keys of the configuration that are modelled
\* (active_profile), it has none
DEFAULT_APP_SETTINGS == EmptyDict

\* reset_app_settings
ResetAppSettings ==
    /\ mainpc = "idle"
    /\ config' = DEFAULT_APP_SETTINGS
    /\ UNCHANGED <<envVars, navVars, outVars, dev, threadVars, mgrVars, profiles, result>>

\* GamepadView.save_profile on the list item of name: the manager saves its
\* state under the name, and the name becomes the active profile
ViewSaveProfile(name) ==
    /\ mainpc = "idle"
    /\ name \in get_profile_list
    /\ profiles' = IF hasConfig
                   THEN DictSet(profiles, name, SavedProfile(name))
                   ELSE profiles
    /\ config' = DictSet(config, "active_profile", name)
    /\ result' = "None"
    /\ UNCHANGED <<envVars, navVars, outVars, dev, threadVars, mgrVars>>

\* GamepadView.delete_profile on the list item of name
ViewDeleteProfile(name) ==
    /\ name \in get_profile_list
    /\ DeleteProfile(name)

\* a profile file written by something other than the application
WriteFile(name, c) ==
    /\ profiles' = DictSet(profiles, name, c)
    /\ UNCHANGED <<envVars, navVars, outVars, dev, threadVars, mgrVars, config, result>>

(***************************************************************************)
(* The system                                                              *)
(***************************************************************************)
\* an unplugged device with nb buttons, na axes and nh hats, all at rest
Device(nb, na, nh) ==
    [count |-> 0, nb |-> nb, na |-> na, nh |-> nh,
     btn |-> [i \in 0..(nb - 1) |-> FALSE],
     axis |-> [i \in 0..(na - 1) |-> 0],
     hat |-> [i \in 0..(nh - 1) |-> <<0, 0>>]]

\* ConfigManager() on a first run, then GamepadManager(config_manager or None):
\* __init__ ends with load_profile() of the active profile
InitManager ==
    /\ hasConfig \in BOOLEAN
    /\ wk = [w \in WorkerIds |-> NoWorker]
    /\ held = [w \in WorkerIds |-> {}]
    /\ created = 0
    /\ worker = None
    /\ mainpc = "idle"
    /\ queue = <<>>
    /\ profiles = DefaultProfiles
    /\ config = DEFAULT_CONFIG
    /\ result = "None"
    /\ mappings = IF hasConfig
                  THEN DefaultProfiles[DEFAULT_CONFIG.active_profile].buttons
                  ELSE DEFAULT_MAPPINGS
    /\ analog = IF hasConfig
                THEN DefaultProfiles[DEFAULT_CONFIG.active_profile].analog
                ELSE DefaultAnalog
    /\ connected = FALSE
    /\ gamepad_name = NoName
    /\ sig = [ev |-> NoEvent, out |-> <<>>]
    /\ warnings = 0

\* the same, after start() with pygame available
InitStarted ==
    /\ pygame = TRUE
    /\ hasConfig \in BOOLEAN
    /\ wk = [w \in WorkerIds |-> IF w = 1 THEN NewWorker ELSE NoWorker]
    /\ held = [w \in WorkerIds |-> {}]
    /\ created = 1
    /\ worker = 1
    /\ mainpc = "idle"
    /\ queue = <<>>
    /\ profiles = DefaultProfiles
    /\ config = DEFAULT_CONFIG
    /\ result = "None"
    /\ mappings = IF hasConfig
                  THEN DefaultProfiles[DEFAULT_CONFIG.active_profile].buttons
                  ELSE DEFAULT_MAPPINGS
    /\ analog = IF hasConfig
                THEN DefaultProfiles[DEFAULT_CONFIG.active_profile].analog
                ELSE DefaultAnalog
    /\ connected = FALSE
    /\ gamepad_name = NoName
    /\ sig = [ev |-> NoEvent, out |-> <<>>]
    /\ warnings = 0

WorkerStep == \E w \in WorkerIds : WorkerBegin(w) \/ WorkerTick(w) \/ WorkerExit(w)

PollStep == \E w \in WorkerIds : WorkerBegin(w) \/ PollTick(w)

(* The lifecycle: start() and stop() in any order, the poller threads, the  *)
(* event loop, and a device that is plugged and unplugged.                  *)
Init ==
    /\ pygame \in BOOLEAN
    /\ dev = Device(0, 0, 0)
    /\ InitManager
    /\ NoWindow

Next ==
    \/ WorkerStep
    \/ DevPlug
    \/ DevUnplug
    \/ Start
    \/ StopBegin
    \/ StopReturn
    \/ Deliver

Spec == Init /\ [][Next]_vars

\* the scheduler runs a thread that can run; wait() returns when it can
FairSpec == Spec /\ WF_vars(WorkerStep) /\ WF_vars(StopReturn)

(* The axes: the deadzone set through the manager before and after start(). *)
InitAxis ==
    /\ pygame = TRUE
    /\ dev = Device(0, MaxAxes, 0)
    /\ InitManager
    /\ NoWindow

NextAxis ==
    \/ PollStep
    \/ DevPlug
    \/ \E i \in 0..(dev.na - 1), v \in AxisValues : DevAxis(i, v)
    \/ Start
    \/ Deliver
    \/ \E v \in DeadzoneInputs : SetDeadzone(v)
    \/ SetDeadzoneWorker
    \/ ResetToDefaults
    \/ \E n \in BuiltinNames \cup {NoName} : LoadProfile(n)

SpecAxis == InitAxis /\ [][NextAxis]_vars

(* The action mapper: the mapping edited and replaced while buttons are     *)
(* pressed.                                                                 *)
InitMap ==
    /\ dev = Device(MapButtons, 0, 0)
    /\ InitStarted
    /\ NoWindow

NextMap ==
    \/ PollStep
    \/ DevPlug
    \/ \E i \in MapPressed : DevButton(i)
    \/ Deliver
    \/ \E i \in MapPressed, a \in MapActions : SetMapping(i, a)
    \/ ResetToDefaults
    \/ \E n \in BuiltinNames \cup {NoName} : LoadProfile(n)

SpecMap == InitMap /\ [][NextMap]_vars

(* The poller and the buttons of a device.                                  *)
InitButtons ==
    /\ \E nb \in 1..MaxButtons : dev = Device(nb, 0, 0)
    /\ InitStarted
    /\ NoWindow

NextButtons ==
    \/ PollStep
    \/ DevPlug
    \/ DevUnplug
    \/ \E i \in 0..(dev.nb - 1) : DevButton(i)
    \/ Deliver

SpecButtons == InitButtons /\ [][NextButtons]_vars

(* The poller and the hats of a device.                                     *)
InitHat ==
    /\ \E nh \in 1..MaxHats : dev = Device(0, 0, nh)
    /\ InitStarted
    /\ NoWindow

NextHat ==
    \/ PollStep
    \/ DevPlug
    \/ DevUnplug
    \/ \E i \in 0..(dev.nh - 1), h \in HatValues : DevHat(i, h)
    \/ Deliver

SpecHat == InitHat /\ [][NextHat]_vars

(* The poller and a device whose physical buttons reach the indices 12..15  *)
(* that the hats use; of its buttons, 12 is pressed and released.           *)
WidePressed == {12}

InitWide ==
    /\ dev = Device(WideButtons, 0, 1)
    /\ InitStarted
    /\ NoWindow

NextWide ==
    \/ PollStep
    \/ DevPlug
    \/ DevUnplug
    \/ \E i \in WidePressed : DevButton(i)
    \/ \E i \in 0..(dev.nh - 1), h \in HatValues : DevHat(i, h)
    \/ Deliver

SpecWide == InitWide /\ [][NextWide]_vars

\* profile files offered to import_profile: one with settings out of range,
\* one with buttons only, and files that are not a JSON object
FileHot ==
    [name |-> "Hot", buttons |-> BuiltinButtons,
     analog |-> [deadzone |-> 90, sensitivity |-> 300, invert_y |-> TRUE]]
FileButtonsOnly == [buttons |-> (StrKey(0) :> "back")]
ImportFiles == {FileHot, FileButtonsOnly, Unparseable, JsonArray, NoFile}

(* The profile store and the manager's settings, with no poller running.   *)
InitStore ==
    /\ pygame = TRUE
    /\ dev = Device(0, 0, 0)
    /\ InitManager
    /\ NoWindow

NextStore ==
    \/ \E v \in DeadzoneInputs : SetDeadzone(v)
    \/ \E v \in SensitivityInputs : SetSensitivity(v)
    \/ ResetToDefaults
    \/ \E n \in BuiltinNames \cup UserNames \cup {NoName} : LoadProfile(n)
    \/ \E n \in UserNames : SaveProfile(n)
    \/ \E n \in BuiltinNames \cup UserNames : DeleteProfile(n)
    \/ \E f \in ImportFiles, n \in UserNames : ImportProfile(f, n)
    \/ \E n \in UserNames, c \in {Unparseable, JsonArray} : WriteFile(n, c)
    \/ \E n \in BuiltinNames \cup UserNames : SetActiveProfile(n)

SpecStore == InitStore /\ [][NextStore]_vars

(* The profile store behind the gamepad view: profiles are saved, imported *)
(* and deleted, and the settings are reset.                                *)
InitView ==
    /\ pygame = TRUE
    /\ dev = Device(0, 0, 0)
    /\ InitManager
    /\ NoWindow

NextView ==
    \/ ResetToDefaults
    \/ \E n \in UserNames : SaveProfile(n)
    \/ \E f \in {FileHot, FileButtonsOnly}, n \in UserNames : ImportProfile(f, n)
    \/ \E n \in BuiltinNames \cup UserNames : ViewSaveProfile(n)
    \/ \E n \in BuiltinNames \cup UserNames : ViewDeleteProfile(n)
    \/ ResetAppSettings

SpecView == InitView /\ [][NextView]_vars

(* The poller and a device with a button, an axis and a hat that is       *)
(* plugged and unplugged.                                                  *)
InitConn ==
    /\ dev = Device(1, 1, 1)
    /\ InitStarted
    /\ NoWindow

NextConn ==
    \/ PollStep
    \/ DevPlug
    \/ DevUnplug
    \/ \E i \in 0..(dev.nb - 1) : DevButton(i)
    \/ \E i \in 0..(dev.na - 1), v \in AxisValues : DevAxis(i, v)
    \/ \E i \in 0..(dev.nh - 1), h \in HatValues : DevHat(i, h)
    \/ Deliver

SpecConn == InitConn /\ [][NextConn]_vars

(* The action mapper and the axes: sensitivity and inversion changed while  *)
(* the sticks move.                                                         *)
InitAxisMap ==
    /\ dev = Device(0, MapAxes, 0)
    /\ InitStarted
    /\ NoWindow

NextAxisMap ==
    \/ PollStep
    \/ DevPlug
    \/ \E i \in 0..(dev.na - 1), v \in AxisValues : DevAxisOne(i, v)
    \/ Deliver
    \/ \E v \in SensitivityInputs : SetSensitivity(v)
    \/ \E b \in BOOLEAN : SetInvertY(b)

SpecAxisMap == InitAxisMap /\ [][NextAxisMap]_vars

(***************************************************************************)
(* MainWindow: spatial focus navigation                                    *)
(***************************************************************************)
Directions == {"down", "up", "right", "left"}

\* A widget: the global position of its centre, what isVisible(), isEnabled()
\* and focusPolicy() != Qt.NoFocus say, and its truth value in Python (PyQt
\* gives the widgets that have a count() a __len__, so a list or combo box
\* with no items is false).
WidgetOfKind(p, k) ==
    [x |-> p[1], y |-> p[2],
     visible |-> k # "hidden",
     enabled |-> k # "disabled",
     focusable |-> k # "nofocus",
     truthy |-> k # "empty"]

NavKinds == {"ok", "hidden", "disabled", "nofocus", "empty"}

\* widget centres in findChildren order; the first is where the focus starts
\* in the examples: one below, one right, one above-left; two tied on the
\* score and one inside the threshold; the best one not the first
NavLayouts ==
    { << <<100, 100>>, <<100, 200>>, <<300, 100>>, <<50, 50>> >>,
      << <<100, 100>>, <<120, 160>>, <<100, 200>>, <<110, 115>> >>,
      << <<100, 100>>, <<100, 300>>, <<100, 200>>, <<90, 100>> >> }

\* _navigate_focus: the filter of the findChildren loop
IsCandidate(i, current) ==
    /\ widgets[i].visible
    /\ widgets[i].enabled
    /\ widgets[i].focusable
    /\ i # current

\* _navigate_focus: the test of the direction, for displacement (dx, dy)
in_direction(direction, dx, dy) ==
    CASE direction = "down" -> dy > 20
      [] direction = "up" -> dy < -20
      [] direction = "right" -> dx > 20
      [] direction = "left" -> dx < -20

\* _navigate_focus: the score, for displacement (dx, dy)
score(direction, dx, dy) ==
    CASE direction = "down" -> dy + Abs(dx) * 2
      [] direction = "up" -> (0 - dy) + Abs(dx) * 2
      [] direction = "right" -> dx + Abs(dy) * 2
      [] direction = "left" -> (0 - dx) + Abs(dy) * 2

\* _navigate_focus: the loop over the widgets in findChildren order, keeping
\* the first widget with the least score (best_score starts at infinity)
BestCandidate(direction, current) ==
    LET F[n \in 0..Len(widgets)] ==
            IF n = 0 THEN [best |-> None, best_score |-> 0]
            ELSE LET b == F[n - 1]
                     dx == widgets[n].x - widgets[current].x
                     dy == widgets[n].y - widgets[current].y
                 IN  IF /\ IsCandidate(n, current)
                        /\ in_direction(direction, dx, dy)
                        /\ (b.best = None \/ score(direction, dx, dy) < b.best_score)
                     THEN [best |-> n, best_score |-> score(direction, dx, dy)]
                     ELSE b
    IN  F[Len(widgets)].best

\* QWidget.focusNextChild(): the next widget after the focus widget in the
\* focus chain that can take the focus, wrapping round; from the start of the
\* chain when nothing has the focus
focusNextChild ==
    LET N == Len(widgets)
        chain == [k \in 1..N |-> ((focus + k - 1) % N) + 1]
        ok == {k \in 1..N : /\ widgets[chain[k]].visible
                            /\ widgets[chain[k]].enabled
                            /\ widgets[chain[k]].focusable}
    IN  IF ok = {} THEN focus
        ELSE chain[CHOOSE k \in ok : \A j \in ok : k <= j]

\* _navigate_focus(direction): the widget that has the focus when it returns
navigate_focus(direction) ==
    IF focus = None \/ ~widgets[focus].truthy
    THEN focusNextChild
    ELSE LET best == BestCandidate(direction, focus)
         IN  IF best # None /\ widgets[best].truthy THEN best ELSE focus

\* focus_next / focus_prev / focus_left / focus_right
Navigate(direction) ==
    /\ mainpc = "idle"
    /\ focus' = navigate_focus(direction)
    /\ UNCHANGED <<envVars, outVars, dev, threadVars, mgrVars, storeVars, widgets>>

\* the user gives the focus to a widget with the mouse, or takes it away
UserFocus(i) ==
    /\ i # focus
    /\ i # None => widgets[i].visible /\ widgets[i].enabled /\ widgets[i].focusable
    /\ focus' = i
    /\ UNCHANGED <<envVars, outVars, dev, threadVars, mgrVars, storeVars, widgets>>

(* The window as MainWindow builds it (a manager with no config), with the  *)
(* widgets of one of the layouts.                                           *)
InitNav ==
    /\ pygame = TRUE
    /\ dev = Device(0, 0, 0)
    /\ InitManager
    /\ hasConfig = FALSE
    /\ \E layout \in NavLayouts :
       \E kinds \in [1..Len(layout) -> NavKinds] :
           widgets = [i \in 1..Len(layout) |-> WidgetOfKind(layout[i], kinds[i])]
    /\ focus = None

NextNav ==
    \/ \E d \in Directions : Navigate(d)
    \/ \E i \in 0..Len(widgets) : UserFocus(i)

SpecNav == InitNav /\ [][NextNav]_vars

(***************************************************************************)
(* Claims                                                                  *)
(***************************************************************************)
\* stop() has returned and start() has not been called since: a worker was
\* created, the manager holds none, and the main thread is in no call
Stopped == created > 0 /\ worker = None /\ mainpc = "idle"

\* C1: after stop() returns, no worker signal is emitted by a poller (posted
\* to the queue) or delivered to a slot of the manager (taken from the queue)
\* until start() is called again.
C1_NoEventAfterStop == [][Stopped /\ Stopped' => queue' = queue]_vars

\* C2: every stop() called after start() eventually returns, whatever the
\* interleaving of the caller with the poller thread.
C2_StopReturns == (mainpc = "wait") ~> (mainpc = "idle")

\* the elements of a sequence
Range(q) == {q[k] : k \in 1..Len(q)}

\* worker w is in its loop and will run another tick
Polling(w) == wk[w].pc = "loop" /\ wk[w].running

\* C3: on every poll tick with a device connected, AxisMoved(i, v) is emitted
\* if and only if |v| exceeds the deadzone configured in the manager's analog
\* settings (outside a set_deadzone call), however and whenever it was set.
C3_AxisIffConfiguredDeadzone ==
    \A w \in WorkerIds :
        (Polling(w) /\ mainpc = "idle" /\ Poll(wk[w], dev).w.joystick) =>
            \A i \in 0..(dev.na - 1) :
                (Ev("axis", i, dev.axis[i]) \in Range(Poll(wk[w], dev).evs))
                    <=> (Abs(dev.axis[i]) > analog.deadzone)

\* the stored profile n maps button index i to an action other than 'none'
ProfileMapsToAction(n, i) ==
    /\ "buttons" \in DOMAIN profiles[n]
    /\ StrKey(i) \in DOMAIN profiles[n].buttons
    /\ profiles[n].buttons[StrKey(i)] # "none"

\* C4: once load_profile(P) has put the buttons of a stored profile P in the
\* manager, a ButtonPressed(i) for an index i that P maps to an action a other
\* than 'none' results in exactly one ActionTriggered carrying a.
C4_LoadedMappingTriggers ==
    [][\A n \in DOMAIN profiles :
         (/\ Deliver
          /\ hasConfig
          /\ mappings = profiles[n].buttons
          /\ Head(queue).type = "pressed"
          /\ ProfileMapsToAction(n, Head(queue).idx))
         => sig'.out = <<Sig("button_pressed", Head(queue).idx,
                             profiles[n].buttons[StrKey(Head(queue).idx)], 0)>>]_vars

\* no key of the mapping, int or str, maps index i to an action
Unassigned(m, i) ==
    \A k \in {IntKey(i), StrKey(i)} \cap DOMAIN m : m[k] = "none"

\* C5: a ButtonPressed for an index that is absent from the active mapping or
\* mapped to 'none' never produces an ActionTriggered, whatever set_mapping,
\* load_profile and reset_to_defaults have made of the mapping.
C5_UnassignedNeverTriggers ==
    [][(/\ Deliver
        /\ Head(queue).type = "pressed"
        /\ Unassigned(mappings, Head(queue).idx))
       => sig'.out = <<>>]_vars

\* the slot of a ButtonPressed(10) has run and emitted nothing, index 10 being
\* absent from the mapping, which set_mapping has edited at another index
C5_Witness_Absent ==
    /\ sig.ev = Ev("pressed", 10, 0)
    /\ sig.out = <<>>
    /\ IntKey(10) \notin DOMAIN mappings
    /\ StrKey(10) \notin DOMAIN mappings
    /\ IntKey(0) \in DOMAIN mappings
    /\ mappings[IntKey(0)] = "back"

\* how many times the signal e occurs in the sequence q
Count(q, e) == Cardinality({k \in 1..Len(q) : q[k] = e})

\* C6: on every poll tick of a connected device, for each physical button i,
\* ButtonPressed(i) is emitted (once) exactly when the stored state is released
\* and the current state pressed, ButtonReleased(i) (once) exactly when stored
\* is pressed and current released, nothing when they are equal, and the
\* stored state becomes the current state.
C6_ButtonEdges ==
    \A w \in WorkerIds :
        (Polling(w) /\ Poll(wk[w], dev).w.joystick) =>
            \A i \in 0..(dev.nb - 1) :
                LET was == DictGet(wk[w].last_button_states, i, FALSE)
                    cur == dev.btn[i]
                    r == Poll(wk[w], dev)
                IN  /\ Count(r.evs, Ev("pressed", i, 0))
                         = IF ~was /\ cur THEN 1 ELSE 0
                    /\ Count(r.evs, Ev("released", i, 0))
                         = IF was /\ ~cur THEN 1 ELSE 0
                    /\ i \in DOMAIN r.w.last_button_states
                    /\ r.w.last_button_states[i] = cur

\* a tick has found button 0 newly pressed: ButtonPressed(0) is posted and the
\* stored state of button 0 is pressed
C6_Witness_Pressed ==
    /\ queue = <<Ev("pressed", 0, 0)>>
    /\ dev.btn[0]
    /\ DictGet(wk[1].last_button_states, 0, FALSE)
    /\ 0 \in held[1]

\* the virtual button indices of the hat
HatIndices == 12..15

\* the hat signals (those of the virtual buttons) in a sequence of signals
RECURSIVE HatEvents(_)
HatEvents(q) ==
    IF q = <<>> THEN <<>>
    ELSE IF Head(q).type \in {"pressed", "released"} /\ Head(q).idx \in HatIndices
    THEN <<Head(q)>> \o HatEvents(Tail(q))
    ELSE HatEvents(Tail(q))

\* C7: on a change of hat state the release of the previous direction's
\* virtual button (if mapped) is emitted before the press of the new
\* direction's (if mapped); at no point of the emitted stream, within a tick
\* or between ticks, are two of the virtual buttons 12-15 pressed.
C7_HatReleaseBeforePress ==
    \A w \in WorkerIds :
        /\ Cardinality(held[w] \cap HatIndices) <= 1
        /\ Polling(w) =>
             LET r == Poll(wk[w], dev)
                 last == wk[w].last_hat_state
             IN  /\ \A k \in 1..Len(r.evs) :
                        Cardinality(Held(held[w], SubSeq(r.evs, 1, k))
                                    \cap HatIndices) <= 1
                 /\ (r.w.joystick /\ dev.nh = 1 /\ dev.hat[0] # last) =>
                        HatEvents(r.evs) =
                            (IF last = <<0, 0>> THEN <<>>
                             ELSE <<Ev("released", hat_buttons[last], 0)>>)
                            \o (IF dev.hat[0] = <<0, 0>> THEN <<>>
                                ELSE <<Ev("pressed", hat_buttons[dev.hat[0]], 0)>>)

\* a tick has seen the hat go from up to left: release(12) then press(14) are
\* posted, and the stream leaves 14 alone pressed
C7_Witness_UpToLeft ==
    /\ queue = <<Ev("released", 12, 0), Ev("pressed", 14, 0)>>
    /\ wk[1].last_hat_state = <<-1, 0>>
    /\ held[1] = {14}

\* C8: a hat transition between two directions that map to the same virtual
\* button, such as (0,1) to (1,1), emits no events.
C8_SameButtonNoEvents ==
    \A w \in WorkerIds :
        (/\ Polling(w)
         /\ wk[w].joystick
         /\ dev.count > 0
         /\ dev.nh = 1
         /\ wk[w].last_hat_state \in DOMAIN hat_buttons
         /\ dev.hat[0] \in DOMAIN hat_buttons
         /\ dev.hat[0] # wk[w].last_hat_state
         /\ hat_buttons[dev.hat[0]] = hat_buttons[wk[w].last_hat_state])
        => Poll(wk[w], dev).evs = <<>>

\* C9: the table of hat directions, and on a device with one hat the
\* transitions (0,0) -> (0,1) -> (-1,0) -> (0,0) emit press(12); release(12),
\* press(14); release(14); and nothing more while the hat stays at (0,0).
C9_HatTableAndSequence ==
    /\ \A h \in {<<0, 1>>, <<1, 1>>, <<-1, 1>>} : hat_buttons[h] = 12
    /\ \A h \in {<<0, -1>>, <<1, -1>>, <<-1, -1>>} : hat_buttons[h] = 13
    /\ hat_buttons[<<-1, 0>>] = 14
    /\ hat_buttons[<<1, 0>>] = 15
    /\ <<0, 0>> \notin DOMAIN hat_buttons
    /\ \A w \in WorkerIds :
        (Polling(w) /\ wk[w].joystick /\ dev.count > 0 /\ dev.nh = 1) =>
            LET from == wk[w].last_hat_state
                to == dev.hat[0]
                r == Poll(wk[w], dev)
            IN  /\ (from = <<0, 0>> /\ to = <<0, 1>>) =>
                        r.evs = <<Ev("pressed", 12, 0)>>
                /\ (from = <<0, 1>> /\ to = <<-1, 0>>) =>
                        r.evs = <<Ev("released", 12, 0), Ev("pressed", 14, 0)>>
                /\ (from = <<-1, 0>> /\ to = <<0, 0>>) =>
                        r.evs = <<Ev("released", 14, 0)>>
                /\ (from = <<0, 0>> /\ to = <<0, 0>>) => r.evs = <<>>
                /\ r.w.last_hat_state = to

\* the last step of the sequence: press(14) has been delivered, and the tick
\* that saw the hat return to (0,0) has posted release(14)
C9_Witness_LeftReleased ==
    /\ dev.nh = 1
    /\ sig.ev = Ev("pressed", 14, 0)
    /\ queue = <<Ev("released", 14, 0)>>
    /\ wk[1].last_hat_state = <<0, 0>>
    /\ held[1] = {}

\* C10: if the button states and the hat states of the device are the same at
\* two consecutive ticks, the second tick emits no ButtonPressed and no
\* ButtonReleased, for any number of buttons and hats.
C10_Deduplicated ==
    \A w \in WorkerIds :
        Polling(w) =>
            \A e \in Range(Poll(Poll(wk[w], dev).w, dev).evs) :
                e.type \notin {"pressed", "released"}

\* C11: when the device disconnects the stored button states and the stored
\* hat direction are reset: on the first poll after a (re)connect a button
\* that is held produces ButtonPressed, and a button or a hat direction that
\* is not held produces no ButtonReleased.
C11_StateResetOnDisconnect ==
    \A w \in WorkerIds :
        (Polling(w) /\ ~wk[w].joystick /\ dev.count > 0) =>
            LET r == Poll(wk[w], dev)
            IN  /\ \A i \in 0..(dev.nb - 1) :
                       /\ dev.btn[i] => Ev("pressed", i, 0) \in Range(r.evs)
                       /\ ~dev.btn[i] => Ev("released", i, 0) \notin Range(r.evs)
                /\ \A b \in HatIndices :
                       (\A i \in 0..(dev.nh - 1) :
                            dev.hat[i] \in DOMAIN hat_buttons
                                => hat_buttons[dev.hat[i]] # b)
                       => Ev("released", b, 0) \notin Range(r.evs)

\* C12: within one poller run a tick emits Connected(name) exactly when the
\* device count went from 0 to at least 1 since the tick before, and
\* Disconnected exactly when it went from at least 1 to 0; a tick that finds
\* no device emits no button or axis event; the Connected and Disconnected
\* signals handled by the manager alternate, starting with Connected.
C12_ConnectionEdges ==
    /\ [](\A w \in WorkerIds :
            Polling(w) =>
                LET r == Poll(wk[w], dev)
                IN  /\ Count(r.evs, EvConnected(DeviceName))
                         = IF ~wk[w].joystick /\ dev.count > 0 THEN 1 ELSE 0
                    /\ Count(r.evs, Ev("disconnected", 0, 0))
                         = IF wk[w].joystick /\ dev.count = 0 THEN 1 ELSE 0
                    /\ r.w.joystick = (dev.count > 0)
                    /\ dev.count = 0 =>
                         \A e \in Range(r.evs) :
                             e.type \notin {"pressed", "released", "axis"})
    /\ [][Deliver =>
            /\ Head(queue).type = "connected" => ~connected
            /\ Head(queue).type = "disconnected" => connected]_vars

\* the manager has handled Disconnected, and the tick that found the device
\* plugged in again has posted Connected
C12_Witness_Reconnected ==
    /\ sig.ev = Ev("disconnected", 0, 0)
    /\ ~connected
    /\ queue = <<EvConnected(DeviceName)>>
    /\ wk[1].joystick

\* the names a profile call is made with
ProfileNames == BuiltinNames \cup UserNames

\* C13: after load_profile(name) of an existing stored profile, the manager's
\* button mapping and its analog settings are the 'buttons' and the 'analog'
\* of that profile: the mapping never comes from one profile while the analog
\* settings come from elsewhere.
C13_LoadReplacesBoth ==
    [][\A n \in ProfileNames :
        (/\ hasConfig
         /\ LoadProfile(n)
         /\ n \in DOMAIN profiles
         /\ IsObject(profiles[n])
         /\ "buttons" \in DOMAIN profiles[n])
        => /\ mappings' = profiles[n].buttons
           /\ "analog" \in DOMAIN profiles[n]
           /\ analog' = profiles[n].analog]_vars

\* C14: in every reachable state of the manager the stored deadzone lies in
\* [0, 0.5] and the stored sensitivity in [0.5, 2.0].
C14_AnalogInRange ==
    /\ analog.deadzone \in 0..50
    /\ analog.sensitivity \in 50..200

\* C15: set_deadzone(v) stores min(0.5, max(0.0, v)) and set_sensitivity(v)
\* stores min(2.0, max(0.5, v)), for every v, without rejecting or raising,
\* and both leave the button mapping and the other analog settings unchanged.
C15_SettersClamp ==
    [][/\ \A v \in DeadzoneInputs :
            SetDeadzone(v) =>
                /\ analog' = [analog EXCEPT !.deadzone = Min2(50, Max2(0, v))]
                /\ mappings' = mappings
                /\ result' = result
       /\ \A v \in SensitivityInputs :
            SetSensitivity(v) =>
                /\ analog' = [analog EXCEPT !.sensitivity = Min2(200, Max2(50, v))]
                /\ mappings' = mappings
                /\ result' = result]_vars

\* set_deadzone(-1) and set_sensitivity(3.0) have stored 0.0 and 2.0
C15_Witness_Clamped ==
    /\ analog.deadzone = 0
    /\ analog.sensitivity = 200
    /\ result = "None"

\* C16: delete_gamepad_profile(name) returns False and leaves the store
\* unchanged when name is built-in or does not exist; it returns True exactly
\* when name is an existing user profile, and name is then no longer in
\* get_profile_list(); it never raises.
C16_DeleteProfile ==
    [][\A n \in ProfileNames :
        DeleteProfile(n) =>
            IF n \in BuiltinNames \/ n \notin get_profile_list
            THEN result' = "False" /\ profiles' = profiles
            ELSE /\ result' = "True"
                 /\ n \notin get_profile_list'
                 /\ \A m \in get_profile_list \ {n} :
                        m \in get_profile_list' /\ profiles'[m] = profiles[m]]_vars

\* the user profile has been deleted: the call returned True and the name is
\* no longer listed, while the built-in profiles are
C16_Witness_Deleted ==
    /\ result = "True"
    /\ "racing" \notin get_profile_list
    /\ BuiltinNames \subseteq get_profile_list

\* C17: load_profile(name) never raises, and when the named profile is
\* missing, unreadable, not valid JSON or not a profile object, the manager
\* ends with the built-in default button mapping and the default analog
\* settings.
C17_LoadFallsBackToDefaults ==
    [][\A n \in ProfileNames :
        (hasConfig /\ LoadProfile(n)) =>
            /\ result' # "AttributeError"
            /\ (n \notin DOMAIN profiles \/ ~IsObject(profiles[n])) =>
                   /\ mappings' \in {DEFAULT_MAPPINGS,
                                     DefaultProfiles["default"].buttons}
                   /\ analog' = DefaultAnalog]_vars

\* C18: import_profile(path, name) of a file that is not valid structured
\* profile data returns False without raising and leaves the profile store
\* unchanged.
C18_ImportRejectsInvalid ==
    [][\A f \in ImportFiles, n \in UserNames :
        (ImportProfile(f, n) /\ ~IsObject(f)) =>
            result' = "False" /\ profiles' = profiles]_vars

\* C19: reset_to_defaults() sets the button mapping to DEFAULT_MAPPINGS and
\* the analog settings to deadzone 0.2, sensitivity 1.0, invert_y False, and
\* leaves every persisted profile and the active-profile name unchanged.
C19_ResetToDefaults ==
    [][ResetToDefaults =>
        /\ mappings' = DEFAULT_MAPPINGS
        /\ analog' = [deadzone |-> 20, sensitivity |-> 100, invert_y |-> FALSE]
        /\ profiles' = profiles
        /\ config' = config]_vars

\* the manager is back at the defaults while the store still holds an
\* imported profile with other settings and another profile is active
C19_Witness_Reset ==
    /\ hasConfig
    /\ mappings = DEFAULT_MAPPINGS
    /\ analog = [deadzone |-> 20, sensitivity |-> 100, invert_y |-> FALSE]
    /\ "racing" \in DOMAIN profiles
    /\ profiles["racing"] = ("name" :> "racing") @@ FileHot
    /\ config.active_profile = "racing"

\* C20: after save_profile(name) the profile store contains a profile called
\* name, listed by get_profile_list(), that holds the manager's current
\* button mapping and analog settings.
C20_SaveProfilePersists ==
    [][\A n \in UserNames :
        SaveProfile(n) =>
            /\ n \in get_profile_list'
            /\ IsObject(profiles'[n])
            /\ "buttons" \in DOMAIN profiles'[n]
            /\ profiles'[n].buttons = JsonKeys(mappings)
            /\ "analog" \in DOMAIN profiles'[n]
            /\ profiles'[n].analog = analog]_vars

\* C21: for every AxisMoved(i, v) delivered to the manager exactly one
\* named-axis signal is emitted; its value is v times the current
\* sensitivity, negated exactly when invert_y is set and i is 1 or 3; its
\* name is left_x, left_y, right_x, right_y for i = 0, 1, 2, 3 and axis_<i>
\* for any other i.
C21_AxisTransform ==
    [][(Deliver /\ Head(queue).type = "axis") =>
        LET i == Head(queue).idx
            v == Head(queue).val
            scaled == v * analog.sensitivity
        IN  /\ Len(sig'.out) = 1
            /\ sig'.out[1].sig = "axis_moved"
            /\ sig'.out[1].val =
                 IF analog.invert_y /\ (i = 1 \/ i = 3) THEN 0 - scaled ELSE scaled
            /\ i = 0 => sig'.out[1].arg = "left_x"
            /\ i = 1 => sig'.out[1].arg = "left_y"
            /\ i = 2 => sig'.out[1].arg = "right_x"
            /\ i = 3 => sig'.out[1].arg = "right_y"
            /\ i \notin 0..3 => sig'.out[1].arg = "axis_" \o ToString(i)]_vars

\* with sensitivity 2.0 and invert_y set, AxisMoved(1, 0.3) has been handled
\* and left_y emitted with -0.6
C21_Witness_InvertedLeftY ==
    /\ analog.invert_y
    /\ analog.sensitivity = 200
    /\ sig.ev = Ev("axis", 1, 30)
    /\ sig.out = <<Sig("axis_moved", 1, "left_y", 0 - 6000)>>

\* the widgets that navigation from the focus widget may choose in a direction
InDirection(d) ==
    {i \in 1..Len(widgets) :
        /\ IsCandidate(i, focus)
        /\ in_direction(d, widgets[i].x - widgets[focus].x,
                           widgets[i].y - widgets[focus].y)}

\* primary-axis distance plus twice the perpendicular-axis distance from the
\* focus widget to widget i
NavScore(d, i) ==
    IF d \in {"down", "up"}
    THEN Abs(widgets[i].y - widgets[focus].y) + 2 * Abs(widgets[i].x - widgets[focus].x)
    ELSE Abs(widgets[i].x - widgets[focus].x) + 2 * Abs(widgets[i].y - widgets[focus].y)

\* C22: whenever a directional navigation moves the focus from an element, the
\* newly focused element is visible, enabled, accepts focus, is not the
\* element focused before, and lies in the requested direction by more than
\* 20 units on the primary axis.
C22_MovesOnlyInDirection ==
    \A d \in Directions :
        (focus # None /\ navigate_focus(d) # focus) =>
            LET n == navigate_focus(d)
                dx == widgets[n].x - widgets[focus].x
                dy == widgets[n].y - widgets[focus].y
            IN  /\ widgets[n].visible /\ widgets[n].enabled /\ widgets[n].focusable
                /\ d = "down" => dy > 20
                /\ d = "up" => dy < -20
                /\ d = "right" => dx > 20
                /\ d = "left" => dx < -20

\* C23: among the eligible candidates in the direction, navigation focuses
\* the one with the least score, and of those tied on it the first in
\* traversal order.
C23_FocusesBestCandidate ==
    \A d \in Directions :
        (focus # None /\ InDirection(d) # {}) =>
            /\ navigate_focus(d) \in InDirection(d)
            /\ \A j \in InDirection(d) :
                   \/ NavScore(d, navigate_focus(d)) < NavScore(d, j)
                   \/ /\ NavScore(d, navigate_focus(d)) = NavScore(d, j)
                      /\ navigate_focus(d) <= j

\* C24: with an element focused and no eligible candidate in the direction
\* the focus is unchanged; with no element focused navigation only advances
\* to the first focusable element in traversal order.
C24_NoCandidateNoFocus ==
    \A d \in Directions :
        /\ (focus # None /\ InDirection(d) = {}) => navigate_focus(d) = focus
        /\ focus = None =>
               LET ok == {i \in 1..Len(widgets) :
                             /\ widgets[i].visible
                             /\ widgets[i].enabled
                             /\ widgets[i].focusable}
               IN  IF ok = {} THEN navigate_focus(d) = None
                   ELSE /\ navigate_focus(d) \in ok
                        /\ \A j \in ok : navigate_focus(d) <= j

\* the worker threads that have been started and have not returned from run()
AlivePollers == {w \in WorkerIds : wk[w].pc \in {"start", "loop"}}

\* C25: without pygame no worker is ever created, no worker signal is ever
\* posted or handled, and start() has printed its warning at most once
C25_NoBackendQuiet ==
    ~pygame => /\ created = 0
               /\ worker = None
               /\ queue = <<>>
               /\ sig.ev = NoEvent
               /\ warnings <= 1

\* C26: at most one worker thread is alive at any time
C26_AtMostOnePoller == Cardinality(AlivePollers) <= 1

\* C27: in the signals of one poller, for every button index, ButtonPressed and
\* ButtonReleased alternate, beginning with ButtonPressed: a tick posts
\* ButtonPressed(i) only when its signals so far leave i released, and
\* ButtonReleased(i) only when they leave i pressed.
C27_PressReleaseAlternate ==
    \A w \in WorkerIds :
        Polling(w) =>
            LET evs == Poll(wk[w], dev).evs
            IN  \A k \in 1..Len(evs) :
                    LET h == Held(held[w], SubSeq(evs, 1, k - 1))
                    IN  /\ evs[k].type = "pressed" => evs[k].idx \notin h
                        /\ evs[k].type = "released" => evs[k].idx \in h

\* the button indices the mapping view shows
ButtonIndices == 0..15

\* C28: load_profile(name) of the profile that save_profile(name) has just
\* written from the manager's state leaves get_mapping(i) unchanged for every
\* button index i, and leaves the analog settings unchanged.
C28_SaveLoadRoundTrip ==
    [][\A n \in UserNames :
        (/\ hasConfig
         /\ n \in DOMAIN profiles
         /\ profiles[n] = SavedProfile(n)
         /\ LoadProfile(n))
        => /\ \A i \in ButtonIndices : get_mapping(i)' = get_mapping(i)
           /\ analog' = analog]_vars

\* C29: once stop() has returned (and until the next start()) is_connected()
\* is False and get_gamepad_name() is None, and in every state is_connected()
\* is True exactly when get_gamepad_name() is not None.
C29_ConnectedOnlyWhilePolling ==
    /\ Stopped => ~is_connected /\ get_gamepad_name = NoName
    /\ is_connected <=> get_gamepad_name # NoName

\* C30: get_active_profile() names a profile of get_profile_list(), and
\* get_gamepad_profile() with no name finds a profile.
C30_ActiveProfileExists ==
    /\ get_active_profile \in get_profile_list
    /\ get_gamepad_profile(NoName) # <<>>

=============================================================================
